---- MODULE Spec2Model ----
(***************************************************************************)
(* HorovodPytorch/01_TrainPyTorchModel.py: the notebook that loads the     *)
(* Batch AI variables, builds the job descriptor (jobs_dict), writes it to *)
(* job.json and drives the az command sequence from experiment creation to *)
(* resource-group deletion.                                                *)
(*                                                                         *)
(* The cells run top to bottom.  A Python exception stops the run; an      *)
(* IPython "!" shell line returns the command's exit status without        *)
(* raising, so the next line runs whatever the status was.                 *)
(*                                                                         *)
(* Text is modelled as a sequence of one-character strings, so that        *)
(* f-string substitution, str * int repetition, str() and the search for a *)
(* substring are computed character by character.                          *)
(***************************************************************************)
EXTENDS Integers, Sequences, FiniteSets, TLC

\* The most external commands that may exit non-zero in one run.
MaxFailures == 1

---------------------------------------------------------------------------
(* Python values: None, int, str, bool, and a name not bound yet.          *)

PyNone == [t |-> "None", n |-> 0, s |-> <<>>]
PyInt(i) == [t |-> "int", n |-> i, s |-> <<>>]
PyStr(chars) == [t |-> "str", n |-> 0, s |-> chars]
PyBool(b) == [t |-> "bool", n |-> IF b THEN 1 ELSE 0, s |-> <<>>]
Unbound == [t |-> "unbound", n |-> 0, s |-> <<>>]
\* The outcome of an operation that raises TypeError.
RaisesTypeError == [t |-> "TypeError", n |-> 0, s |-> <<>>]

Digits == <<"0", "1", "2", "3", "4", "5", "6", "7", "8", "9">>

RECURSIVE NatToStr(_)
NatToStr(i) ==
    IF i < 10 THEN <<Digits[i + 1]>>
    ELSE NatToStr(i \div 10) \o <<Digits[(i % 10) + 1]>>

\* str(i) of a Python int.
IntToStr(i) == IF i < 0 THEN <<"-">> \o NatToStr(0 - i) ELSE NatToStr(i)

\* str(v), as an f-string field, str.format and IPython's $name expansion apply it.
Str(v) ==
    CASE v.t = "str" -> v.s
      [] v.t = "int" -> IntToStr(v.n)
      [] v.t = "bool" -> IF v.n = 1 THEN <<"T", "r", "u", "e">>
                         ELSE <<"F", "a", "l", "s", "e">>
      [] OTHER -> <<"N", "o", "n", "e">>

\* bool(v), as "if USE_FAKE" applies it.
Truthy(v) ==
    CASE v.t = "str" -> v.s # <<>>
      [] v.t = "int" -> v.n # 0
      [] v.t = "bool" -> v.n = 1
      [] OTHER -> FALSE

RECURSIVE Repeat(_, _)
\* chars * k of Python: k copies, the empty string for k <= 0.
Repeat(chars, k) == IF k <= 0 THEN <<>> ELSE chars \o Repeat(chars, k - 1)

IsNumber(v) == v.t \in {"int", "bool"}

\* a * b of Python on these values.
PyMul(a, b) ==
    CASE IsNumber(a) /\ IsNumber(b) -> PyInt(a.n * b.n)
      [] a.t = "str" /\ IsNumber(b) -> PyStr(Repeat(a.s, b.n))
      [] IsNumber(a) /\ b.t = "str" -> PyStr(Repeat(b.s, a.n))
      [] OTHER -> RaisesTypeError

---------------------------------------------------------------------------
(* Text search.                                                            *)

\* sub occurs in chars starting at position i.
OccursAt(chars, sub, i) ==
    /\ i >= 1
    /\ i + Len(sub) - 1 <= Len(chars)
    /\ sub # <<>> => chars[i] = sub[1]
    /\ SubSeq(chars, i, i + Len(sub) - 1) = sub

Occurrences(chars, sub) == {i \in 1..Len(chars) : OccursAt(chars, sub, i)}

Contains(chars, sub) == Occurrences(chars, sub) # {}

\* chars with the k characters from position i removed.
Without(chars, i, k) ==
    SubSeq(chars, 1, i - 1) \o SubSeq(chars, i + k, Len(chars))

IsSpace(c) == c = " "

\* The run of non-blank characters of chars that starts at position i.
RECURSIVE WordAt(_, _)
WordAt(chars, i) ==
    IF i > Len(chars) \/ IsSpace(chars[i]) THEN <<>>
    ELSE <<chars[i]>> \o WordAt(chars, i + 1)

IsDigit(c) == \E d \in 1..10 : Digits[d] = c

DigitValue(c) == (CHOOSE d \in 1..10 : Digits[d] = c) - 1

IsDecimal(chars) == chars # <<>> /\ \A i \in 1..Len(chars) : IsDigit(chars[i])

RECURSIVE StrToNat(_)
StrToNat(chars) ==
    IF chars = <<>> THEN 0
    ELSE 10 * StrToNat(SubSeq(chars, 1, Len(chars) - 1))
         + DigitValue(chars[Len(chars)])

---------------------------------------------------------------------------
(* The literal text of the commandLine f-string, lines 79-93, around its   *)
(* two fields {TOTAL_PROCESSES} and {FAKE}.  A backslash at the end of a   *)
(* line joins it to the next one, whose leading blanks stay in the text.   *)

\* 'echo $AZ_BATCH_HOST_LIST;     cat $AZ_BATCHAI_MPI_HOST_FILE;     mpirun -np '
CommandLineHead ==
    <<"e","c","h","o"," ","$","A","Z","_","B","A","T","C","H","_","H","O","S","T","_","L","I",
    "S","T",";"," "," "," "," "," ","c","a","t"," ","$","A","Z","_","B","A","T","C","H","A",
    "I","_","M","P","I","_","H","O","S","T","_","F","I","L","E",";"," "," "," "," "," ","m",
    "p","i","r","u","n"," ","-","n","p"," ">>

\* ' --hostfile $AZ_BATCHAI_MPI_HOST_FILE     -bind-to none -map-by slot     -x NCCL_DEBUG=INFO -x LD_LIBRARY_PATH     -mca btl_tcp_if_include eth0     -x NCCL_SOCKET_IFNAME=eth0     -mca btl ^openib     -x NCCL_IB_DISABLE=1     -x DISTRIBUTED=True     -x AZ_BATCHAI_INPUT_TRAIN     -x AZ_BATCHAI_INPUT_TEST     --allow-run-as-root       '
CommandLineMiddle ==
    <<" ","-","-","h","o","s","t","f","i","l","e"," ","$","A","Z","_","B","A","T","C","H","A",
    "I","_","M","P","I","_","H","O","S","T","_","F","I","L","E"," "," "," "," "," ","-","b",
    "i","n","d","-","t","o"," ","n","o","n","e"," ","-","m","a","p","-","b","y"," ","s","l",
    "o","t"," "," "," "," "," ","-","x"," ","N","C","C","L","_","D","E","B","U","G","=","I",
    "N","F","O"," ","-","x"," ","L","D","_","L","I","B","R","A","R","Y","_","P","A","T","H",
    " "," "," "," "," ","-","m","c","a"," ","b","t","l","_","t","c","p","_","i","f","_","i",
    "n","c","l","u","d","e"," ","e","t","h","0"," "," "," "," "," ","-","x"," ","N","C","C",
    "L","_","S","O","C","K","E","T","_","I","F","N","A","M","E","=","e","t","h","0"," "," ",
    " "," "," ","-","m","c","a"," ","b","t","l"," ","^","o","p","e","n","i","b"," "," "," ",
    " "," ","-","x"," ","N","C","C","L","_","I","B","_","D","I","S","A","B","L","E","=","1",
    " "," "," "," "," ","-","x"," ","D","I","S","T","R","I","B","U","T","E","D","=","T","r",
    "u","e"," "," "," "," "," ","-","x"," ","A","Z","_","B","A","T","C","H","A","I","_","I",
    "N","P","U","T","_","T","R","A","I","N"," "," "," "," "," ","-","x"," ","A","Z","_","B",
    "A","T","C","H","A","I","_","I","N","P","U","T","_","T","E","S","T"," "," "," "," "," ",
    "-","-","a","l","l","o","w","-","r","u","n","-","a","s","-","r","o","o","t"," "," "," ",
    " "," "," "," ">>

\* '       python -u $AZ_BATCHAI_INPUT_SCRIPTS/imagenet_pytorch_horovod.py'
CommandLineTail ==
    <<" "," "," "," "," "," "," ","p","y","t","h","o","n"," ","-","u"," ","$","A","Z","_","B",
    "A","T","C","H","A","I","_","I","N","P","U","T","_","S","C","R","I","P","T","S","/","i",
    "m","a","g","e","n","e","t","_","p","y","t","o","r","c","h","_","h","o","r","o","v","o",
    "d",".","p","y">>

\* '-env FAKE=True', line 52.
FakeFlag == <<"-", "e", "n", "v", " ", "F", "A", "K", "E", "=", "T", "r", "u", "e">>

\* commandLine, lines 79-93: the f-string with its two fields filled in.
CommandLine(total, fake) ==
    CommandLineHead \o Str(total) \o CommandLineMiddle \o Str(fake) \o CommandLineTail

\* Variant: the TEST entry left out.
InputDirectoriesWithoutTest ==
    << [id |-> <<"S", "C", "R", "I", "P", "T", "S">>,
        path |-> "$AZ_BATCHAI_MOUNT_ROOT/extfs/scripts"],
       [id |-> <<"T", "R", "A", "I", "N">>,
        path |-> "$AZ_BATCHAI_MOUNT_ROOT/nfs/imagenet"] >>

\* inputDirectories, lines 96-108.
InputDirectories ==
    << [id |-> <<"S", "C", "R", "I", "P", "T", "S">>,
        path |-> "$AZ_BATCHAI_MOUNT_ROOT/extfs/scripts"],
       [id |-> <<"T", "R", "A", "I", "N">>,
        path |-> "$AZ_BATCHAI_MOUNT_ROOT/nfs/imagenet"],
       [id |-> <<"T", "E", "S", "T">>,
        path |-> "$AZ_BATCHAI_MOUNT_ROOT/nfs/imagenet"] >>

\* jobs_dict, lines 74-120.
JobsDict(numNodes, total, fake, dockerhub) ==
    [defined |-> TRUE,
     schema |-> "https://raw.githubusercontent.com/Azure/BatchAI/master/schemas/2017-09-01-preview/job.json",
     nodeCount |-> numNodes,
     commandLine |-> CommandLine(total, fake),
     stdOutErrPathPrefix |-> "$AZ_BATCHAI_MOUNT_ROOT/extfs",
     inputDirectories |-> InputDirectories,
     outputDirectories |->
         << [id |-> <<"M", "O", "D", "E", "L">>,
             pathPrefix |-> "$AZ_BATCHAI_MOUNT_ROOT/extfs",
             pathSuffix |-> "Models"] >>,
     image |-> Str(dockerhub)
               \o <<"/", "c", "a", "i", "a", "-", "h", "o", "r", "o", "v", "o", "d",
                    "-", "p", "y", "t", "o", "r", "c", "h">>]

NoDict == [defined |-> FALSE]

\* 'pytorch-horovod-{}'.format(NUM_NODES*PROCESSES_PER_NODE), line 124.
JobNameOf(product) ==
    <<"p", "y", "t", "o", "r", "c", "h", "-", "h", "o", "r", "o", "v", "o", "d", "-">>
    \o Str(product)

\* f"distributed_pytorch_{GPU_TYPE}", line 47.
ExperimentOf(gpuType) ==
    <<"d", "i", "s", "t", "r", "i", "b", "u", "t", "e", "d", "_", "p", "y", "t", "o",
      "r", "c", "h", "_">> \o Str(gpuType)

---------------------------------------------------------------------------
(* The inputs of a run: the .env store, the environment, and the values    *)
(* the operator puts in the parameters cell in place of the ones it loads. *)

Keys ==
    {"GROUP_NAME", "FILE_SHARE_NAME", "WORKSPACE", "NUM_NODES", "CLUSTER_NAME",
     "GPU_TYPE", "PROCESSES_PER_NODE"}

\* A store with every key set; the defaults the notebook's text describes
\* (2 nodes, 4 processes per node, V100).
FullStore ==
    [GROUP_NAME |-> <<"r", "g">>,
     FILE_SHARE_NAME |-> <<"f", "s">>,
     WORKSPACE |-> <<"w", "s">>,
     NUM_NODES |-> <<"2">>,
     CLUSTER_NAME |-> <<"g", "p", "u">>,
     GPU_TYPE |-> <<"V", "1", "0", "0">>,
     PROCESSES_PER_NODE |-> <<"4">>]

\* The stores of the runs: the full one, the full one with one key missing,
\* and the full one with one of the two counts set to the empty string.
Stores ==
    {FullStore}
    \cup {[k \in Keys \ {gone} |-> FullStore[k]] : gone \in Keys}
    \cup {[FullStore EXCEPT ![k] = <<>>] : k \in {"NUM_NODES", "PROCESSES_PER_NODE"}}

\* get_key(dotenv_path, key) of python-dotenv: the value's text, None for a
\* key the store does not hold.
get_key(store, key) ==
    IF key \in DOMAIN store THEN PyStr(store[key]) ELSE PyNone

\* os.getenv(name, default), line 49.
getenv(env, name, default) ==
    IF name \in DOMAIN env THEN PyStr(env[name]) ELSE PyStr(default)

\* The environment without and with DOCKER_REPOSITORY.
NoEnvironment == [k \in {} |-> <<>>]

Environments ==
    {[k \in S |-> <<"h", "u", "b">>] : S \in SUBSET {"DOCKER_REPOSITORY"}}

\* The runs' store and environment: every store under the environment that
\* leaves DOCKERHUB its default, and the full store under each environment.
Installations ==
    {<<store, NoEnvironment>> : store \in Stores}
    \cup {<<FullStore, env>> : env \in Environments}

\* What the operator may set in the parameters cell ("change as necessary",
\* lines 36-37; "Set the USE_FAKE to True", line 34): Unbound leaves the
\* source line's own value.
ParameterSets ==
    [NUM_NODES : {Unbound, PyInt(2)},
     PROCESSES_PER_NODE : {Unbound, PyInt(4)},
     USE_FAKE : {Unbound, PyBool(TRUE)}]

---------------------------------------------------------------------------
VARIABLES
    dotenv, environ, parameters,
    GROUP_NAME, FILE_SHARE_NAME, WORKSPACE, NUM_NODES, CLUSTER_NAME, GPU_TYPE,
    PROCESSES_PER_NODE, EXPERIMENT, USE_FAKE, DOCKERHUB,
    FAKE, TOTAL_PROCESSES, jobs_dict, JOB_NAME,
    pc, error, log, files, deleted

inputs == <<dotenv, environ, parameters>>
settings ==
    <<GROUP_NAME, FILE_SHARE_NAME, WORKSPACE, NUM_NODES, CLUSTER_NAME, GPU_TYPE,
      PROCESSES_PER_NODE, EXPERIMENT, USE_FAKE, DOCKERHUB>>
derived == <<FAKE, TOTAL_PROCESSES, jobs_dict, JOB_NAME>>
vars == <<inputs, settings, derived, pc, error, log, files, deleted>>

\* Variant: the descriptor built and submitted before the uploads.
ProgramSubmitBeforeUploads ==
    <<38, 52, 53, 57, 74, 122, 124, 128, 61, 62, 63, 64, 68, 132, 136, 140, 142,
      146, 153, 154, 158, 162, 164, 168>>

\* Variant: the experiment delete and the job delete exchanged.
ProgramExperimentDeletedFirst ==
    <<38, 52, 53, 57, 61, 62, 63, 64, 68, 74, 122, 124, 128, 132, 136, 140, 142,
      162, 153, 154, 158, 146, 164, 168>>

\* The executable lines, in file order; pc is the line to run next.
Program ==
    <<38, 52, 53, 57, 61, 62, 63, 64, 68, 74, 122, 124, 128, 132, 136, 140, 142,
      146, 153, 154, 158, 162, 164, 168>>

IndexOf(line) == CHOOSE i \in 1..Len(Program) : Program[i] = line

\* The line after line; 0 past the last one.
Succ(line) ==
    IF IndexOf(line) = Len(Program) THEN 0 ELSE Program[IndexOf(line) + 1]

Init ==
    /\ \E installation \in Installations :
           dotenv = installation[1] /\ environ = installation[2]
    /\ parameters \in ParameterSets
    /\ GROUP_NAME = Unbound /\ FILE_SHARE_NAME = Unbound /\ WORKSPACE = Unbound
    /\ NUM_NODES = Unbound /\ CLUSTER_NAME = Unbound /\ GPU_TYPE = Unbound
    /\ PROCESSES_PER_NODE = Unbound /\ EXPERIMENT = Unbound
    /\ USE_FAKE = Unbound /\ DOCKERHUB = Unbound
    /\ FAKE = Unbound /\ TOTAL_PROCESSES = Unbound
    /\ jobs_dict = NoDict /\ JOB_NAME = Unbound
    /\ pc = Program[1]
    /\ error = "none"
    /\ log = <<>>
    /\ files = <<>>
    /\ deleted = {}

\* The value the parameters cell leaves in a name: the operator's, if set.
Parameter(name, loaded) ==
    IF parameters[name] # Unbound THEN parameters[name] ELSE loaded

\* Lines 38-49, the parameters cell.
LoadVariables ==
    /\ pc = 38 /\ error = "none"
    /\ GROUP_NAME' = get_key(dotenv, "GROUP_NAME")
    /\ FILE_SHARE_NAME' = get_key(dotenv, "FILE_SHARE_NAME")
    /\ WORKSPACE' = get_key(dotenv, "WORKSPACE")
    /\ NUM_NODES' = Parameter("NUM_NODES", get_key(dotenv, "NUM_NODES"))
    /\ CLUSTER_NAME' = get_key(dotenv, "CLUSTER_NAME")
    /\ GPU_TYPE' = get_key(dotenv, "GPU_TYPE")
    /\ PROCESSES_PER_NODE' =
           Parameter("PROCESSES_PER_NODE", get_key(dotenv, "PROCESSES_PER_NODE"))
    /\ EXPERIMENT' = PyStr(ExperimentOf(GPU_TYPE'))
    /\ USE_FAKE' = Parameter("USE_FAKE", PyBool(FALSE))
    /\ DOCKERHUB' =
           getenv(environ, "DOCKER_REPOSITORY", <<"m", "a", "s", "a", "l", "v", "a", "r">>)
    /\ pc' = Succ(38)
    /\ UNCHANGED <<inputs, derived, error, log, files, deleted>>

\* Variant: the two branches of the conditional exchanged.
FakeOfInverted(useFake) == IF Truthy(useFake) THEN PyStr(<<>>) ELSE PyStr(FakeFlag)

\* FAKE='-env FAKE=True' if USE_FAKE else '', line 52.
FakeOf(useFake) == IF Truthy(useFake) THEN PyStr(FakeFlag) ELSE PyStr(<<>>)

SetFake ==
    /\ pc = 52 /\ error = "none"
    /\ FAKE' = FakeOf(USE_FAKE)
    /\ pc' = Succ(52)
    /\ UNCHANGED <<inputs, settings, TOTAL_PROCESSES, jobs_dict, JOB_NAME, error,
                   log, files, deleted>>

\* Variant: a missing count taken as 0 instead of raising.
TotalProcessesOfNoneAsZero(processesPerNode, numNodes) ==
    IF processesPerNode = PyNone \/ numNodes = PyNone THEN PyInt(0)
    ELSE PyMul(processesPerNode, numNodes)

\* TOTAL_PROCESSES = PROCESSES_PER_NODE * NUM_NODES, line 53.
TotalProcessesOf(processesPerNode, numNodes) == PyMul(processesPerNode, numNodes)

\* An exception leaves the name unbound and ends the run at this line.
SetTotalProcesses ==
    /\ pc = 53 /\ error = "none"
    /\ LET total == TotalProcessesOf(PROCESSES_PER_NODE, NUM_NODES) IN
         IF total = RaisesTypeError
         THEN /\ error' = "TypeError"
              /\ UNCHANGED <<TOTAL_PROCESSES, pc>>
         ELSE /\ TOTAL_PROCESSES' = total
              /\ pc' = Succ(53)
              /\ UNCHANGED error
    /\ UNCHANGED <<inputs, settings, FAKE, jobs_dict, JOB_NAME, log, files, deleted>>

---------------------------------------------------------------------------
(* External operations.  log holds them in the order they ran: every "!"   *)
(* command with its expanded arguments and exit status, and the file       *)
(* write.  deleted holds the resources a delete command has removed.       *)

Failures == Cardinality({i \in 1..Len(log) : log[i].rc # 0})

\* The exit statuses a command may return: any command may fail.
ExitCodes == IF Failures < MaxFailures THEN {0, 1} ELSE {0}

NoPayload == [defined |-> FALSE]

Entry(line, cmd, args, rc, reads, writes, payload) ==
    [line |-> line, cmd |-> cmd, args |-> args, rc |-> rc,
     reads |-> reads, writes |-> writes, payload |-> payload]

\* Variant: a non-zero exit status raises and stops the run.
BangHalting(line, cmd, args, rc) ==
    /\ pc = line /\ error = "none"
    /\ log' = Append(log, Entry(line, cmd, args, rc, {}, {}, NoPayload))
    /\ IF rc = 0
       THEN pc' = Succ(line) /\ UNCHANGED error
       ELSE error' = "CalledProcessError" /\ UNCHANGED pc
    /\ UNCHANGED <<inputs, settings, derived, files>>

\* A "!" line: IPython expands $name to str(name), runs the command and goes
\* on to the next line whatever the exit status.
Bang(line, cmd, args, rc) ==
    /\ pc = line /\ error = "none"
    /\ log' = Append(log, Entry(line, cmd, args, rc, {}, {}, NoPayload))
    /\ pc' = Succ(line)
    /\ UNCHANGED <<inputs, settings, derived, error, files>>

\* A delete command: the resource is gone when the command succeeds.  Every
\* delete line passes -y, with which az asks for no confirmation.
BangDelete(line, cmd, args, rc, resource) ==
    /\ Bang(line, cmd, args, rc)
    /\ deleted' = IF rc = 0 THEN deleted \cup {resource} ELSE deleted

\* Line 57.
ExperimentCreate ==
    \E rc \in ExitCodes :
        /\ Bang(57, "az batchai experiment create",
                [n |-> Str(EXPERIMENT), g |-> Str(GROUP_NAME), w |-> Str(WORKSPACE)],
                rc)
        /\ UNCHANGED deleted

\* Lines 61-64.
Uploads ==
    << [line |-> 61, source |-> "src/imagenet_pytorch_horovod.py"],
       [line |-> 62, source |-> "../common/timer.py"],
       [line |-> 63, source |-> "cluster_config/docker.service"],
       [line |-> 64, source |-> "cluster_config/nodeprep.sh"] >>

StorageFileUpload ==
    \E u \in 1..Len(Uploads), rc \in ExitCodes :
        /\ Bang(Uploads[u].line, "az storage file upload",
                [share_name |-> Str(FILE_SHARE_NAME), source |-> Uploads[u].source,
                 path |-> "scripts"],
                rc)
        /\ UNCHANGED deleted

\* Line 68.
ClusterList ==
    \E rc \in ExitCodes :
        /\ Bang(68, "az batchai cluster list", [w |-> Str(WORKSPACE), o |-> "table"], rc)
        /\ UNCHANGED deleted

\* Lines 74-120.
BuildJobsDict ==
    /\ pc = 74 /\ error = "none"
    /\ jobs_dict' = JobsDict(NUM_NODES, TOTAL_PROCESSES, FAKE, DOCKERHUB)
    /\ pc' = Succ(74)
    /\ UNCHANGED <<inputs, settings, FAKE, TOTAL_PROCESSES, JOB_NAME, error, log,
                   files, deleted>>

\* json of a Python value.
JsonOf(v) ==
    CASE v.t = "str" -> [j |-> "string", text |-> v.s]
      [] v.t = "int" -> [j |-> "number", text |-> IntToStr(v.n)]
      [] v.t = "bool" -> [j |-> IF v.n = 1 THEN "true" ELSE "false", text |-> <<>>]
      [] OTHER -> [j |-> "null", text |-> <<>>]

\* write_json_to_file(json_dict, filename) of common/utils.py: the document
\* the file holds afterwards.
write_json_to_file(dict) ==
    [defined |-> TRUE,
     schema |-> [j |-> "string", text |-> dict.schema],
     nodeCount |-> JsonOf(dict.nodeCount),
     commandLine |-> [j |-> "string", text |-> dict.commandLine],
     stdOutErrPathPrefix |-> [j |-> "string", text |-> dict.stdOutErrPathPrefix],
     inputDirectories |-> dict.inputDirectories,
     outputDirectories |-> dict.outputDirectories,
     image |-> [j |-> "string", text |-> dict.image]]

\* Line 122.
WriteJobJson ==
    /\ pc = 122 /\ error = "none"
    /\ files' = [p \in DOMAIN files \cup {"job.json"} |->
                    IF p = "job.json" THEN write_json_to_file(jobs_dict) ELSE files[p]]
    /\ log' = Append(log, Entry(122, "write_json_to_file", [filename |-> "job.json"],
                                0, {}, {"job.json"}, write_json_to_file(jobs_dict)))
    /\ pc' = Succ(122)
    /\ UNCHANGED <<inputs, settings, derived, error, deleted>>

\* Variant: the line also sets nodeCount to int(NUM_NODES) in the built
\* descriptor, after job.json was written from it.
SetJobNamePatchingDescriptor ==
    /\ pc = 124 /\ error = "none"
    /\ JOB_NAME' = PyStr(JobNameOf(PyMul(NUM_NODES, PROCESSES_PER_NODE)))
    /\ jobs_dict' = [jobs_dict EXCEPT !.nodeCount = PyInt(StrToNat(Str(NUM_NODES)))]
    /\ pc' = Succ(124)
    /\ UNCHANGED <<inputs, settings, FAKE, TOTAL_PROCESSES, error, log, files, deleted>>

\* Line 124.  NUM_NODES*PROCESSES_PER_NODE raises as line 53 does.
SetJobName ==
    /\ pc = 124 /\ error = "none"
    /\ LET product == PyMul(NUM_NODES, PROCESSES_PER_NODE) IN
         IF product = RaisesTypeError
         THEN /\ error' = "TypeError"
              /\ UNCHANGED <<JOB_NAME, pc>>
         ELSE /\ JOB_NAME' = PyStr(JobNameOf(product))
              /\ pc' = Succ(124)
              /\ UNCHANGED error
    /\ UNCHANGED <<inputs, settings, FAKE, TOTAL_PROCESSES, jobs_dict, log, files,
                   deleted>>

\* Line 128: the submission; az reads the file -f names.
JobCreate ==
    \E rc \in ExitCodes :
        /\ pc = 128 /\ error = "none"
        /\ log' = Append(log,
               Entry(128, "az batchai job create",
                     [n |-> Str(JOB_NAME), cluster |-> Str(CLUSTER_NAME),
                      w |-> Str(WORKSPACE), e |-> Str(EXPERIMENT), f |-> "job.json"],
                     rc, {"job.json"}, {},
                     IF "job.json" \in DOMAIN files THEN files["job.json"]
                     ELSE NoPayload))
        /\ pc' = Succ(128)
        /\ UNCHANGED <<inputs, settings, derived, error, files, deleted>>

\* Line 132.
JobList ==
    \E rc \in ExitCodes :
        /\ Bang(132, "az batchai job list",
                [w |-> Str(WORKSPACE), e |-> Str(EXPERIMENT), o |-> "table"], rc)
        /\ UNCHANGED deleted

\* Line 136.
JobFileList ==
    \E rc \in ExitCodes :
        /\ Bang(136, "az batchai job file list",
                [w |-> Str(WORKSPACE), e |-> Str(EXPERIMENT), j |-> Str(JOB_NAME),
                 output_directory_id |-> "stdouterr"],
                rc)
        /\ UNCHANGED deleted

\* Lines 140 and 142.
Streams ==
    << [line |-> 140, f |-> "stdout.txt"], [line |-> 142, f |-> "stderr.txt"] >>

JobFileStream ==
    \E s \in 1..Len(Streams), rc \in ExitCodes :
        /\ Bang(Streams[s].line, "az batchai job file stream",
                [w |-> Str(WORKSPACE), e |-> Str(EXPERIMENT), j |-> Str(JOB_NAME),
                 output_directory_id |-> "stdouterr", f |-> Streams[s].f],
                rc)
        /\ UNCHANGED deleted

\* Line 146.
\* Variant: the job delete without -y.
JobDeleteAsking ==
    \E rc \in ExitCodes :
        BangDelete(146, "az batchai job delete",
                   [w |-> Str(WORKSPACE), e |-> Str(EXPERIMENT),
                    name |-> Str(JOB_NAME), y |-> FALSE],
                   rc, "job")

JobDelete ==
    \E rc \in ExitCodes :
        BangDelete(146, "az batchai job delete",
                   [w |-> Str(WORKSPACE), e |-> Str(EXPERIMENT),
                    name |-> Str(JOB_NAME), y |-> TRUE],
                   rc, "job")

\* Lines 153 and 154.
Defaults ==
    << [line |-> 153, defaults |-> "group=''"],
       [line |-> 154, defaults |-> "location=''"] >>

ConfigureDefaults ==
    \E d \in 1..Len(Defaults), rc \in ExitCodes :
        /\ Bang(Defaults[d].line, "az configure", [defaults |-> Defaults[d].defaults],
                rc)
        /\ UNCHANGED deleted

\* Line 158.
ClusterDelete ==
    \E rc \in ExitCodes :
        BangDelete(158, "az batchai cluster delete",
                   [w |-> Str(WORKSPACE), name |-> Str(CLUSTER_NAME),
                    g |-> Str(GROUP_NAME), y |-> TRUE],
                   rc, "cluster")

\* Line 162.
ExperimentDelete ==
    \E rc \in ExitCodes :
        BangDelete(162, "az batchai experiment delete",
                   [w |-> Str(WORKSPACE), name |-> Str(EXPERIMENT),
                    g |-> Str(GROUP_NAME), y |-> TRUE],
                   rc, "experiment")

\* Line 164.
WorkspaceDelete ==
    \E rc \in ExitCodes :
        BangDelete(164, "az batchai workspace delete",
                   [n |-> Str(WORKSPACE), g |-> Str(GROUP_NAME), y |-> TRUE],
                   rc, "workspace")

\* Line 168.
GroupDelete ==
    \E rc \in ExitCodes :
        BangDelete(168, "az group delete", [name |-> Str(GROUP_NAME), y |-> TRUE],
                   rc, "group")

Next ==
    \/ LoadVariables
    \/ SetFake
    \/ SetTotalProcesses
    \/ ExperimentCreate
    \/ StorageFileUpload
    \/ ClusterList
    \/ BuildJobsDict
    \/ WriteJobJson
    \/ SetJobName
    \/ JobCreate
    \/ JobList
    \/ JobFileList
    \/ JobFileStream
    \/ JobDelete
    \/ ConfigureDefaults
    \/ ClusterDelete
    \/ ExperimentDelete
    \/ WorkspaceDelete
    \/ GroupDelete

Spec == Init /\ [][Next]_vars

---------------------------------------------------------------------------
(* What the claims speak of.                                               *)

\* The run is stopped by an exception.
Halted == error # "none"

\* The parameters cell has run.
Loaded == pc # 38

Lines == {log[i].line : i \in 1..Len(log)}

\* The place of line's operation in log; 0 if it has not run.
Position(line) ==
    IF line \in Lines THEN CHOOSE i \in 1..Len(log) : log[i].line = line ELSE 0

\* v stands for the positive integer k, as an int or as its decimal text.
Denotes(v, k) ==
    \/ v.t = "int" /\ v.n = k
    \/ v.t = "str" /\ IsDecimal(v.s) /\ StrToNat(v.s) = k

IsCount(v) ==
    \/ v.t = "int" /\ v.n > 0
    \/ v.t = "str" /\ IsDecimal(v.s) /\ StrToNat(v.s) > 0

CountOf(v) == IF v.t = "int" THEN v.n ELSE StrToNat(v.s)

\* Every key of the store is set to a non-empty value, and the two counts
\* are the ones read from it and stand for positive integers.
ValidConfiguration ==
    /\ \A k \in Keys : k \in DOMAIN dotenv /\ dotenv[k] # <<>>
    /\ Loaded
    /\ NUM_NODES = get_key(dotenv, "NUM_NODES") /\ IsCount(NUM_NODES)
    /\ PROCESSES_PER_NODE = get_key(dotenv, "PROCESSES_PER_NODE")
    /\ IsCount(PROCESSES_PER_NODE)

\* The word that follows 'mpirun -np ' in a command line.
EmbeddedProcessCount(commandLine) ==
    LET at == Occurrences(commandLine, <<"m", "p", "i", "r", "u", "n", " ", "-", "n",
                                         "p", " ">>)
    IN  IF at = {} THEN <<>>
        ELSE WordAt(commandLine, (CHOOSE i \in at : \A k \in at : i <= k) + 11)

\* The descriptor has just been built.
Emitted == pc = Succ(74) /\ jobs_dict.defined

\* C1: for every valid configuration, building the descriptor succeeds,
\* TOTAL_PROCESSES is the integer PROCESSES_PER_NODE * NUM_NODES, and that number
\* is the one after 'mpirun -np' in commandLine, hence nodeCount times the
\* processes per node.
C1_TotalProcessesIsProduct ==
    ValidConfiguration =>
        /\ ~Halted
        /\ pc \notin {52, 53} =>
               TOTAL_PROCESSES = PyInt(CountOf(PROCESSES_PER_NODE) * CountOf(NUM_NODES))
        /\ Emitted =>
               /\ IsCount(jobs_dict.nodeCount)
               /\ IsDecimal(EmbeddedProcessCount(jobs_dict.commandLine))
               /\ StrToNat(EmbeddedProcessCount(jobs_dict.commandLine))
                      = CountOf(jobs_dict.nodeCount) * CountOf(PROCESSES_PER_NODE)

\* C9: with NUM_NODES=2, PROCESSES_PER_NODE=4, GPU_TYPE="V100" and USE_FAKE
\* false, the builder emits a descriptor whose nodeCount is the integer 2 and
\* whose commandLine holds 'mpirun -np 8' and no 'FAKE=True'.
C9_TwoNodesFourProcesses ==
    ( /\ Loaded
      /\ Denotes(NUM_NODES, 2) /\ Denotes(PROCESSES_PER_NODE, 4)
      /\ GPU_TYPE = PyStr(<<"V", "1", "0", "0">>)
      /\ ~Truthy(USE_FAKE) )
    =>
        /\ ~Halted
        /\ Emitted =>
               /\ jobs_dict.nodeCount = PyInt(2)
               /\ Contains(jobs_dict.commandLine,
                           <<"m", "p", "i", "r", "u", "n", " ", "-", "n", "p", " ", "8">>)
               /\ ~Contains(jobs_dict.commandLine,
                            <<"F", "A", "K", "E", "=", "T", "r", "u", "e">>)

\* C7: with the other options fixed, the commandLine built with USE_FAKE true
\* holds '-env FAKE=True' exactly once and is the commandLine built with
\* USE_FAKE false plus that one token; the latter holds no 'FAKE=True'.
C7_FakeFlagIsTheOnlyDifference ==
    Emitted =>
        LET other == CommandLine(TOTAL_PROCESSES, FakeOf(PyBool(~Truthy(USE_FAKE))))
            withFake == IF Truthy(USE_FAKE) THEN jobs_dict.commandLine ELSE other
            withoutFake == IF Truthy(USE_FAKE) THEN other ELSE jobs_dict.commandLine
            at == Occurrences(withFake, FakeFlag)
        IN  /\ Cardinality(at) = 1
            /\ \A i \in at : Without(withFake, i, Len(FakeFlag)) = withoutFake
            /\ ~Contains(withoutFake, <<"F", "A", "K", "E", "=", "T", "r", "u", "e">>)

\* A descriptor built with USE_FAKE true, its flag in the command line.
C7_Witness ==
    /\ Emitted
    /\ Truthy(USE_FAKE)
    /\ Contains(jobs_dict.commandLine, FakeFlag)

\* The characters of a shell variable's name.
NameChars ==
    {"A", "B", "C", "D", "E", "F", "G", "H", "I", "J", "K", "L", "M", "N", "O", "P",
     "Q", "R", "S", "T", "U", "V", "W", "X", "Y", "Z", "a", "b", "c", "d", "e", "f",
     "g", "h", "i", "j", "k", "l", "m", "n", "o", "p", "q", "r", "s", "t", "u", "v",
     "w", "x", "y", "z", "0", "1", "2", "3", "4", "5", "6", "7", "8", "9", "_"}

RECURSIVE NameAt(_, _)
NameAt(chars, i) ==
    IF i > Len(chars) \/ chars[i] \notin NameChars THEN <<>>
    ELSE <<chars[i]>> \o NameAt(chars, i + 1)

\* The ids a command line refers to through AZ_BATCHAI_INPUT_<ID>.
ReferencedInputIds(commandLine) ==
    {NameAt(commandLine, i + 17) :
        i \in Occurrences(commandLine,
                          <<"A", "Z", "_", "B", "A", "T", "C", "H", "A", "I", "_", "I",
                            "N", "P", "U", "T", "_">>)}

\* C8: every id the commandLine of an emitted descriptor refers to through
\* AZ_BATCHAI_INPUT_<ID> is the id of an entry of its inputDirectories.
C8_ReferencedInputIdsExist ==
    Emitted =>
        \A id \in ReferencedInputIds(jobs_dict.commandLine) :
            \E k \in 1..Len(jobs_dict.inputDirectories) :
                jobs_dict.inputDirectories[k].id = id

\* A descriptor whose command line refers to SCRIPTS, TRAIN and TEST.
C8_Witness ==
    /\ Emitted
    /\ ReferencedInputIds(jobs_dict.commandLine)
           = {<<"S", "C", "R", "I", "P", "T", "S">>, <<"T", "R", "A", "I", "N">>,
              <<"T", "E", "S", "T">>}

---------------------------------------------------------------------------
(* The order of the external operations.                                   *)

\* The places in log of the operations named cmd.
At(cmd) == {i \in 1..Len(log) : log[i].cmd = cmd}

Polls ==
    At("az batchai job list") \cup At("az batchai job file list")
    \cup At("az batchai job file stream")

\* C5: the steps run in the fixed order, none twice: experiment create, the
\* four uploads, the descriptor write, the submission, then the status poll
\* and the log streaming.
C5_FixedOrder ==
    /\ \A i, k \in 1..Len(log) : i < k => log[i].line < log[k].line
    /\ \A s \in At("az batchai job create") :
           \E x \in At("az batchai experiment create"), w \in At("write_json_to_file") :
               /\ w < s
               /\ \A u \in 1..Len(Uploads) :
                      \E i \in At("az storage file upload") :
                          /\ log[i].args.source = Uploads[u].source
                          /\ x < i /\ i < w
    /\ \A p \in Polls : \E s \in At("az batchai job create") : s < p

\* Both log files have been streamed.
C5_Witness ==
    Cardinality(At("az batchai job file stream")) = 2

JobJsonWriters == {i \in 1..Len(log) : "job.json" \in log[i].writes}

JobJsonReaders == {i \in 1..Len(log) : "job.json" \in log[i].reads}

\* C6, in a state: job.json is written at most once and read at most once, by
\* the submission, which gets the document written from jobs_dict; the file
\* keeps that document; a finished run has written and submitted it once.
DescriptorUsedOnce ==
    /\ Cardinality(JobJsonWriters) <= 1
    /\ Cardinality(JobJsonReaders) <= 1
    /\ \A r \in JobJsonReaders :
           /\ log[r].cmd = "az batchai job create"
           /\ \E w \in JobJsonWriters : w < r /\ log[w].payload = log[r].payload
           /\ log[r].payload = write_json_to_file(jobs_dict)
    /\ "job.json" \in DOMAIN files => files["job.json"] = write_json_to_file(jobs_dict)
    /\ pc = 0 => Cardinality(JobJsonWriters) = 1 /\ Cardinality(JobJsonReaders) = 1

\* C6, in a step: a built descriptor and a written job.json do not change.
DescriptorKept ==
    /\ jobs_dict.defined => jobs_dict' = jobs_dict
    /\ "job.json" \in DOMAIN files => files' = files

\* C6: the descriptor is created once, not modified afterwards, serialized to
\* job.json once and consumed by exactly one submission; nothing later reads
\* or rewrites it.
C6_DescriptorLifecycle == []DescriptorUsedOnce /\ [][DescriptorKept]_vars

\* A finished run, its descriptor submitted.
C6_Witness == pc = 0 /\ JobJsonReaders # {}

DeleteCommands ==
    {"az batchai job delete", "az batchai cluster delete",
     "az batchai experiment delete", "az batchai workspace delete", "az group delete"}

\* The resource a delete command removes.
ResourceOf(cmd) ==
    CASE cmd = "az batchai job delete" -> "job"
      [] cmd = "az batchai cluster delete" -> "cluster"
      [] cmd = "az batchai experiment delete" -> "experiment"
      [] cmd = "az batchai workspace delete" -> "workspace"
      [] cmd = "az group delete" -> "group"

Deletes == {i \in 1..Len(log) : log[i].cmd \in DeleteCommands}

\* The deletes that took effect, each with the resource it removed.
EffectiveDeletes == {i \in Deletes : log[i].rc = 0}

\* az asks the operator to confirm a delete unless -y is passed.
Confirmed(entry) == ~entry.args.y

\* C2 as stated: no delete takes effect unless the operator has confirmed it.
C2_DeleteOnlyAfterConfirmation ==
    \A r \in deleted :
        \E i \in EffectiveDeletes : ResourceOf(log[i].cmd) = r /\ Confirmed(log[i])

\* C2 as amended: a delete takes effect only after the submission, the status
\* poll and the streaming have run, and it is passed -y, so that nobody is asked
\* to confirm it.
C2_DeleteAfterMonitoringUnconfirmed ==
    \A r \in deleted :
        \E i \in EffectiveDeletes :
            /\ ResourceOf(log[i].cmd) = r
            /\ log[i].args.y
            /\ \A line \in {128, 132, 136, 140, 142} :
                   Position(line) > 0 /\ Position(line) < i

\* Every resource has been deleted.
C2_Witness == deleted = {"job", "cluster", "experiment", "workspace", "group"}

\* C3 as stated: nothing runs after an external command that failed, and no
\* step is retried.
C3_FailureHalts ==
    /\ \A i \in 1..Len(log) : log[i].rc # 0 => i = Len(log)
    /\ \A i, k \in 1..Len(log) : i # k => log[i].line # log[k].line

\* C3 as amended: no step is retried, and a failed external command does not
\* stop the run: the run goes past it, and it can always go on until the last
\* line unless a Python exception (the TypeError of line 53 or 124) stopped it.
C3_FailureDoesNotHalt ==
    /\ \A i, k \in 1..Len(log) : i # k => log[i].line # log[k].line
    /\ \A i \in 1..Len(log) :
           log[i].rc # 0 => pc = 0 \/ IndexOf(pc) > IndexOf(log[i].line)
    /\ Halted => error = "TypeError" /\ pc \in {53, 124}
    /\ ~Halted /\ pc # 0 => ENABLED Next

\* An upload failed and the job was submitted all the same.
C3_Witness ==
    /\ \E i \in At("az storage file upload") : log[i].rc # 0
    /\ At("az batchai job create") # {}

\* A key the run loaded as None or as the empty string.
MissingKey ==
    /\ Loaded
    /\ \E v \in {GROUP_NAME, FILE_SHARE_NAME, WORKSPACE, NUM_NODES, CLUSTER_NAME,
                 GPU_TYPE, PROCESSES_PER_NODE} :
           v = PyNone \/ v = PyStr(<<>>)

\* C4 as stated, less the name of the error: with a required key absent or
\* empty, no descriptor file is written and no external command is issued.
C4_MissingKeyStopsTheRun == MissingKey => log = <<>> /\ files = <<>>

\* C4 as amended: with NUM_NODES or PROCESSES_PER_NODE absent, the run gets no
\* further than line 53, where it stops with a TypeError, before any file is
\* written and any external command is issued.
C4_AbsentCountStopsAtLine53 ==
    (Loaded /\ (NUM_NODES = PyNone \/ PROCESSES_PER_NODE = PyNone)) =>
        /\ pc \in {52, 53}
        /\ log = <<>> /\ files = <<>>
        /\ Halted => error = "TypeError"
        /\ pc = 53 /\ ~Halted => ENABLED SetTotalProcesses

\* NUM_NODES absent beside an integer PROCESSES_PER_NODE: stopped at line 53.
C4_Witness ==
    /\ NUM_NODES = PyNone /\ PROCESSES_PER_NODE.t = "int"
    /\ pc = 53 /\ error = "TypeError"

TeardownOrder == <<"job", "cluster", "experiment", "workspace", "group">>

Rank(resource) == CHOOSE k \in 1..5 : TeardownOrder[k] = resource

\* The resources a command addresses: its own and the ones that hold it.
Addressed(cmd) ==
    CASE cmd \in {"az batchai job create", "az batchai job list",
                  "az batchai job file list", "az batchai job file stream",
                  "az batchai job delete"} -> {"job", "experiment", "workspace", "group"}
      [] cmd \in {"az batchai experiment create", "az batchai experiment delete"} ->
             {"experiment", "workspace", "group"}
      [] cmd \in {"az batchai cluster list", "az batchai cluster delete"} ->
             {"cluster", "workspace", "group"}
      [] cmd = "az batchai workspace delete" -> {"workspace", "group"}
      [] cmd = "az group delete" -> {"group"}
      [] OTHER -> {}

\* The job a job-scoped command names, where it names one.
NamesJob(entry, name) ==
    CASE entry.cmd \in {"az batchai job file list", "az batchai job file stream"} ->
             entry.args.j = name
      [] entry.cmd = "az batchai job delete" -> entry.args.name = name
      [] OTHER -> TRUE

JobScoped ==
    At("az batchai job list") \cup At("az batchai job file list")
    \cup At("az batchai job file stream") \cup At("az batchai job delete")

====
